---- MODULE Spec2Model ----
(***************************************************************************)
(* A model of bevy_quickstart's per-frame simulation: the splash screen    *)
(* state machine (src/src/screens/splash.rs), the movement pipeline        *)
(* (src/src/game/movement.rs, src/src/demo/player.rs) and the spawn        *)
(* cascade (src/src/game/spawn/level.rs, src/src/demo/level.rs).           *)
(*                                                                         *)
(* Time is counted in whole time units of 0.1 s (a Duration is an integer  *)
(* count of nanoseconds in the code; the model uses a coarser grid).       *)
(* f32 values that the code divides are modelled as exact rationals        *)
(* <<n, d>> with d > 0, extended by the IEEE special values NaN, +Inf and  *)
(* -Inf that a division by zero produces.                                  *)
(***************************************************************************)
EXTENDS Integers, Sequences, FiniteSets, TLC

VARIABLES
    \* ---- screens/splash.rs ----
    screen,         \* State<Screen>: the active screen
    next_screen,    \* NextState<Screen>: "Unchanged" or the pending screen
    timer,          \* the SplashTimer resource: <<>> or <<Timer record>>
    splash_images,  \* SplashScreenImageList: the queue of image paths
    container,      \* TRUE iff the SplashScreenContainer entity exists
    children,       \* the container's children: a sequence of splash images
    commands,       \* deferred Commands queued by the systems of this schedule
    stage,          \* position of the frame in the schedules
    ran,            \* the systems that have run in the current schedule
    delta,          \* Time::delta of the current frame, in time units
    escape,         \* input_just_pressed(KeyCode::Escape) in the current frame
    \* ---- history of the splash run (observation only) ----
    hist,
    \* ---- game/movement.rs, demo/player.rs ----
    keys,           \* ButtonInput<KeyCode>: the keys pressed in the current frame
    world,          \* the entities with a MovementController and their components
    sfx,            \* Sfx::Step triggers delivered in the current frame
    \* ---- history of the movement run (observation only) ----
    mhist,
    \* ---- game/spawn/level.rs, demo/level.rs, demo/player.rs ----
    spawned,        \* the entities spawned so far, in order of construction
    dispatch,       \* the stack of command queues being applied, innermost last
    \* ---- history of the spawn run (observation only) ----
    shist

splashVars == <<screen, next_screen, timer, splash_images, container, children,
                hist>>

moveVars == <<keys, world, sfx, mhist>>

\* the frame: schedule position, systems run, deferred commands, inputs
frameVars == <<commands, stage, ran, delta, escape>>

spawnVars == <<spawned, dispatch, shist>>

vars == <<splashVars, frameVars, moveVars, spawnVars>>

-----------------------------------------------------------------------------
(* Bounds of the model.                                                    *)

\* largest Time::delta of one frame, in time units of 0.1 s
MaxDelta == 20
\* longest configured splash image list
MaxQueue == 3
\* largest total_duration / fade_duration / t drawn for a free-standing
\* UiImageFadeInOut component
MaxDuration == 8
\* largest Time::delta of one frame of the movement pipeline, in time units
MaxMoveDelta == 2
\* total time the movement pipeline is run for, in time units
MaxMoveTime == 3
\* largest Movement::speed drawn for an entity
MaxSpeed == 2
\* most commands the issuing systems have queued when they are applied
MaxSpawnCommands == 3
\* most visits of Screen::Splash in one run of the app
MaxVisits == 2

-----------------------------------------------------------------------------
(* f32 arithmetic as used by UiImageFadeInOut::alpha.                      *)

Abs(x) == IF x < 0 THEN -x ELSE x

RECURSIVE Gcd(_, _)
Gcd(a, b) == IF b = 0 THEN a ELSE Gcd(b, a % b)

\* IEEE special values, written with a zero denominator
NaN == <<0, 0>>
PosInf == <<1, 0>>
NegInf == <<-1, 0>>

IsSpecial(x) == x[2] = 0

\* the rational n/d (d # 0) in lowest terms with a positive denominator
Rat(n, d) ==
    LET g == Gcd(Abs(n), Abs(d))
        s == IF d < 0 THEN -1 ELSE 1
    IN  <<(s * n) \div g, (s * d) \div g>>

FromInt(n) == <<n, 1>>

\* the sign of a value: 0 for zero and for NaN
Sign(x) == IF x[1] > 0 THEN 1 ELSE IF x[1] < 0 THEN -1 ELSE 0

\* a < b on f32: false whenever an operand is NaN
FLt(a, b) ==
    CASE a = NaN \/ b = NaN -> FALSE
      [] a = PosInf -> FALSE
      [] b = NegInf -> FALSE
      [] a = NegInf -> TRUE
      [] b = PosInf -> TRUE
      [] OTHER -> a[1] * b[2] < b[1] * a[2]

\* a <= b on f32
FLe(a, b) == a # NaN /\ b # NaN /\ (a = b \/ FLt(a, b))

FNeg(a) == <<-a[1], a[2]>>

\* a / b on f32: x/0 is an infinity, 0/0 and Inf/Inf are NaN
FDiv(a, b) ==
    CASE a = NaN \/ b = NaN -> NaN
      [] IsSpecial(a) /\ IsSpecial(b) -> NaN
      [] IsSpecial(a) -> IF Sign(b) < 0 THEN FNeg(a) ELSE a
      [] IsSpecial(b) -> FromInt(0)
      [] b[1] = 0 -> IF a[1] = 0 THEN NaN
                     ELSE IF a[1] > 0 THEN PosInf ELSE NegInf
      [] OTHER -> Rat(a[1] * b[2], a[2] * b[1])

FMul(a, b) ==
    CASE a = NaN \/ b = NaN -> NaN
      [] IsSpecial(a) \/ IsSpecial(b) ->
            IF Sign(a) * Sign(b) = 0 THEN NaN
            ELSE IF Sign(a) * Sign(b) > 0 THEN PosInf ELSE NegInf
      [] OTHER -> Rat(a[1] * b[1], a[2] * b[2])

FSub(a, b) ==
    CASE a = NaN \/ b = NaN -> NaN
      [] IsSpecial(a) /\ IsSpecial(b) -> IF a = b THEN NaN ELSE a
      [] IsSpecial(a) -> a
      [] IsSpecial(b) -> FNeg(b)
      [] OTHER -> Rat(a[1] * b[2] - b[1] * a[2], a[2] * b[2])

FAbs(a) == <<Abs(a[1]), a[2]>>

\* f32::min: a NaN operand is ignored in favour of the other operand
FMin(a, b) ==
    CASE a = NaN -> b
      [] b = NaN -> a
      [] OTHER -> IF FLt(b, a) THEN b ELSE a

\* f32::clamp: NaN stays NaN
FClamp(x, lo, hi) ==
    CASE x = NaN -> NaN
      [] FLt(x, lo) -> lo
      [] FLt(hi, x) -> hi
      [] OTHER -> x

-----------------------------------------------------------------------------
(* screens/splash.rs: constants and the fade curve.                        *)

\* SPLASH_DURATION_SECS = 1.8, in time units of 0.1 s
SPLASH_DURATION_SECS == 18
\* SPLASH_FADE_DURATION_SECS = 0.6, in time units of 0.1 s
SPLASH_FADE_DURATION_SECS == 6

\* UiImageFadeInOut::alpha without the clamp of the normalised time
alpha_noclamp(anim) ==
    LET t    == FDiv(FromInt(anim.t), FromInt(anim.total_duration))
        fade == FDiv(FromInt(anim.fade_duration), FromInt(anim.total_duration))
    IN  FMin(FDiv(FSub(FromInt(1), FAbs(FSub(FMul(FromInt(2), t), FromInt(1)))), fade),
             FromInt(1))

\* UiImageFadeInOut::alpha
alpha(anim) ==
    LET t    == FClamp(FDiv(FromInt(anim.t), FromInt(anim.total_duration)),
                       FromInt(0), FromInt(1))
        fade == FDiv(FromInt(anim.fade_duration), FromInt(anim.total_duration))
    IN  FMin(FDiv(FSub(FromInt(1), FAbs(FSub(FMul(FromInt(2), t), FromInt(1)))), fade),
             FromInt(1))

-----------------------------------------------------------------------------
(* bevy Timer, as driven by tick_splash_timer / tick_step_sfx.             *)

\* Timer::from_seconds(duration, mode)
TimerNew(duration, mode) ==
    [duration |-> duration, mode |-> mode, elapsed |-> 0,
     finished |-> FALSE, times_finished_this_tick |-> 0]

\* Timer::tick(delta)
TimerTick(tm, d) ==
    IF tm.mode = "Once" /\ tm.finished
    THEN [tm EXCEPT !.times_finished_this_tick = 0]
    ELSE LET e == tm.elapsed + d IN
         IF e >= tm.duration
         THEN IF tm.mode = "Repeating"
              THEN [tm EXCEPT !.finished = TRUE,
                              !.times_finished_this_tick = e \div tm.duration,
                              !.elapsed = e % tm.duration]
              ELSE [tm EXCEPT !.finished = TRUE,
                              !.times_finished_this_tick = 1,
                              !.elapsed = tm.duration]
         ELSE [tm EXCEPT !.finished = FALSE,
                         !.times_finished_this_tick = 0,
                         !.elapsed = e]

\* Timer::just_finished()
TimerJustFinished(tm) == tm.times_finished_this_tick > 0

\* Timer::reset()
TimerReset(tm) ==
    [tm EXCEPT !.elapsed = 0, !.finished = FALSE, !.times_finished_this_tick = 0]

-----------------------------------------------------------------------------
(* screens/splash.rs: resources and bundles.                               *)

\* the image paths a SplashScreenImageList may be configured with
ImagePaths == 1 .. MaxQueue

\* SplashScreenImageList: the first n image paths, in order
ImageList(n) == [i \in 1 .. n |-> i]

\* impl Default for SplashTimer
SplashTimerDefault == TimerNew(SPLASH_DURATION_SECS, "Once")

\* splash_image_bundle: a UiImage (white, alpha 1) with a fresh UiImageFadeInOut
splash_image_bundle(path) ==
    [path |-> path,
     total_duration |-> SPLASH_DURATION_SECS,
     fade_duration |-> SPLASH_FADE_DURATION_SECS,
     t |-> 0,
     color_alpha |-> FromInt(1)]

\* the systems of each schedule
OnEnterSystems == {"spawn_splash", "insert_splash_timer"}
OnExitSystems == {"remove_splash_timer", "clear_state_scoped_entities"}
UpdateSystems == {"tick_fade_in_out", "tick_splash_timer", "apply_fade_in_out",
                  "check_splash_timer", "exit_splash_screen"}

\* the system sets with trigger_step_sfx registered in no set
SystemSet_TriggerUnordered(s) ==
    CASE s \in {"tick_fade_in_out", "tick_splash_timer", "tick_step_sfx"} ->
            "TickTimers"
      [] s \in {"record_movement_controller",
                "record_player_directional_input"} -> "RecordInput"
      [] s \in {"apply_fade_in_out", "check_splash_timer", "apply_movement",
                "update_facing"} -> "Update"
      [] OTHER -> "None"

\* in_set(...) of each Update system; exit_splash_screen is in no set
SystemSet(s) ==
    CASE s \in {"tick_fade_in_out", "tick_splash_timer", "tick_step_sfx"} ->
            "TickTimers"
      [] s \in {"record_movement_controller",
                "record_player_directional_input"} -> "RecordInput"
      [] s \in {"apply_fade_in_out", "check_splash_timer", "apply_movement",
                "update_facing", "trigger_step_sfx"} -> "Update"
      [] OTHER -> "None"

\* the configured order of the system sets: a pair <<a, b>> runs a before b
SetOrder == {<<"TickTimers", "Update">>, <<"RecordInput", "Update">>}

\* system s may run now: it has not run in this schedule, and every system of a
\* set ordered before its set has run
Runnable(s, systems) ==
    /\ s \notin ran
    /\ \A o \in systems : <<SystemSet(o), SystemSet(s)>> \in SetOrder => o \in ran

\* NextState::set
RequestScreen(h) ==
    [h EXCEPT !.requests = @ + 1, !.frame_requests = @ + 1]

\* a world without movable entities: the movement pipeline is not in use
NoMovement ==
    /\ keys = {}
    /\ world = <<>>
    /\ sfx = 0
    /\ mhist = <<>>

\* no spawn request is queued or in progress
NoSpawning ==
    /\ spawned = <<>>
    /\ dispatch = <<>>
    /\ shist = <<>>

-----------------------------------------------------------------------------
(* The splash screen: initial state and schedules.                         *)

\* the history at the start of a visit of Screen::Splash: the image list as
\* configured, the queue found on entry, and the number of the visit
SplashHistInit(configured, queue, visit) ==
    [configured |-> configured, queue0 |-> queue, visits |-> visit,
     requests |-> 0, frame_requests |-> 0,
     completions |-> 0, frame_completed |-> FALSE,
     shown |-> <<>>, frame_shown |-> FALSE, frame_queue |-> queue,
     esc_ever |-> FALSE, frames |-> 0]

\* App construction: init_resource::<SplashScreenImageList>() with a configured
\* list, and Screen::Splash about to be entered
SplashInit ==
    /\ screen = "Splash"
    /\ next_screen = "Unchanged"
    /\ timer = <<>>
    /\ splash_images \in {ImageList(n) : n \in 0 .. MaxQueue}
    /\ container = FALSE
    /\ children = <<>>
    /\ commands = <<>>
    /\ stage = "OnEnter"
    /\ ran = {}
    /\ delta = 0
    /\ escape = FALSE
    /\ hist = SplashHistInit(splash_images, splash_images, 1)
    /\ NoMovement
    /\ NoSpawning

\* spawn_splash spawning the container whatever the image list holds
spawn_splash_always_container ==
    /\ stage = "OnEnter"
    /\ Runnable("spawn_splash", OnEnterSystems)
    /\ ran' = ran \cup {"spawn_splash"}
    /\ commands' = Append(commands, [op |-> "spawn_container"])
    /\ IF splash_images = <<>>
       THEN /\ next_screen' = "Loading"
            /\ hist' = RequestScreen(hist)
       ELSE UNCHANGED <<next_screen, hist>>
    /\ UNCHANGED <<screen, timer, splash_images, container, children, stage,
                   delta, escape>>
    /\ UNCHANGED <<moveVars, spawnVars>>

\* OnEnter(Screen::Splash): spawn_splash
spawn_splash ==
    /\ stage = "OnEnter"
    /\ Runnable("spawn_splash", OnEnterSystems)
    /\ ran' = ran \cup {"spawn_splash"}
    /\ IF splash_images = <<>>
       THEN /\ next_screen' = "Loading"
            /\ hist' = RequestScreen(hist)
            /\ UNCHANGED commands
       ELSE /\ commands' = Append(commands, [op |-> "spawn_container"])
            /\ UNCHANGED <<next_screen, hist>>
    /\ UNCHANGED <<screen, timer, splash_images, container, children, stage,
                   delta, escape>>
    /\ UNCHANGED <<moveVars, spawnVars>>

\* OnEnter(Screen::Splash): insert_splash_timer
insert_splash_timer ==
    /\ stage = "OnEnter"
    /\ Runnable("insert_splash_timer", OnEnterSystems)
    /\ ran' = ran \cup {"insert_splash_timer"}
    /\ commands' = Append(commands, [op |-> "init_resource"])
    /\ UNCHANGED <<screen, next_screen, timer, splash_images, container,
                   children, stage, delta, escape, hist>>
    /\ UNCHANGED <<moveVars, spawnVars>>

\* remove_splash_timer leaving the resource in place
remove_splash_timer_skipped ==
    /\ stage = "OnExit"
    /\ Runnable("remove_splash_timer", OnExitSystems)
    /\ ran' = ran \cup {"remove_splash_timer"}
    /\ UNCHANGED <<screen, next_screen, timer, splash_images, container,
                   children, commands, stage, delta, escape, hist>>
    /\ UNCHANGED <<moveVars, spawnVars>>

\* OnExit(Screen::Splash): remove_splash_timer
remove_splash_timer ==
    /\ stage = "OnExit"
    /\ Runnable("remove_splash_timer", OnExitSystems)
    /\ ran' = ran \cup {"remove_splash_timer"}
    /\ commands' = Append(commands, [op |-> "remove_resource"])
    /\ UNCHANGED <<screen, next_screen, timer, splash_images, container,
                   children, stage, delta, escape, hist>>
    /\ UNCHANGED <<moveVars, spawnVars>>

\* OnExit(Screen::Splash): the entities marked StateScoped(Screen::Splash) are
\* despawned with their descendants
clear_state_scoped_entities ==
    /\ stage = "OnExit"
    /\ Runnable("clear_state_scoped_entities", OnExitSystems)
    /\ ran' = ran \cup {"clear_state_scoped_entities"}
    /\ commands' = IF container
                   THEN Append(commands, [op |-> "despawn_container"])
                   ELSE commands
    /\ UNCHANGED <<screen, next_screen, timer, splash_images, container,
                   children, stage, delta, escape, hist>>
    /\ UNCHANGED <<moveVars, spawnVars>>

\* one deferred command applied to the world state w
ApplyCommand(w, c) ==
    CASE c.op = "spawn_container" -> [w EXCEPT !.container = TRUE]
      [] c.op = "despawn_container" ->
            [w EXCEPT !.container = FALSE, !.children = <<>>]
      [] c.op = "init_resource" ->
            IF w.timer = <<>> THEN [w EXCEPT !.timer = <<SplashTimerDefault>>] ELSE w
      [] c.op = "remove_resource" -> [w EXCEPT !.timer = <<>>]
      [] c.op = "replace_children" ->
            \* despawn_descendants().with_children(spawn(splash_image_bundle))
            IF w.container
            THEN [w EXCEPT !.children = <<splash_image_bundle(c.path)>>,
                           !.shown = Append(@, c.path)]
            ELSE w

RECURSIVE ApplyCommands(_, _)
ApplyCommands(w, cs) ==
    IF cs = <<>> THEN w ELSE ApplyCommands(ApplyCommand(w, Head(cs)), Tail(cs))

\* the systems of the schedule in progress
StageSystems ==
    CASE stage = "OnEnter" -> OnEnterSystems
      [] stage = "OnExit" -> OnExitSystems
      [] stage = "Update" -> UpdateSystems
      [] OTHER -> {}

\* end of a schedule: the deferred commands are applied in the order queued
apply_deferred ==
    /\ stage \in {"OnEnter", "OnExit", "Update"}
    /\ ran = StageSystems
    /\ LET w == ApplyCommands([container |-> container, children |-> children,
                               timer |-> timer, shown |-> hist.shown], commands)
       IN  /\ container' = w.container
           /\ children' = w.children
           /\ timer' = w.timer
           /\ hist' = [hist EXCEPT !.shown = w.shown,
                                   !.frame_shown = w.shown # hist.shown]
    /\ commands' = <<>>
    /\ ran' = {}
    /\ stage' = IF stage = "OnExit" THEN "Exited" ELSE "Idle"
    /\ UNCHANGED <<screen, next_screen, splash_images, delta, escape>>
    /\ UNCHANGED <<moveVars, spawnVars>>

\* a new frame with elapsed time d in which Escape has just been pressed (e) or
\* not: Time and ButtonInput are updated before the schedules run
BeginFrameWith(d, e) ==
    /\ stage = "Idle"
    /\ delta' = d
    /\ escape' = e
    /\ hist' = [hist EXCEPT !.frame_requests = 0,
                            !.frame_completed = FALSE,
                            !.frame_shown = FALSE,
                            !.frame_queue = splash_images,
                            !.esc_ever = @ \/ e,
                            !.frames = IF @ < 2 THEN @ + 1 ELSE @]
    /\ stage' = "StateTransition"
    /\ UNCHANGED <<screen, next_screen, timer, splash_images, container,
                   children, commands, ran>>
    /\ UNCHANGED <<moveVars, spawnVars>>

\* a new frame: any elapsed time, Escape pressed or not
BeginFrame == \E d \in 0 .. MaxDelta, e \in BOOLEAN : BeginFrameWith(d, e)

\* the StateTransition schedule: a pending NextState is applied and the exit
\* schedule of the screen left is run; otherwise Update runs
StateTransition ==
    /\ stage = "StateTransition"
    /\ IF next_screen # "Unchanged"
       THEN /\ screen' = next_screen
            /\ next_screen' = "Unchanged"
            /\ stage' = "OnExit"
       ELSE /\ stage' = "Update"
            /\ UNCHANGED <<screen, next_screen>>
    /\ ran' = {}
    /\ UNCHANGED <<timer, splash_images, container, children, commands, delta,
                   escape, hist>>
    /\ UNCHANGED <<moveVars, spawnVars>>

-----------------------------------------------------------------------------
(* The splash screen: the systems of the Update schedule.                  *)

\* .run_if(in_state(Screen::Splash))
in_state_splash == screen = "Splash"

\* tick_fade_in_out counting frames instead of elapsed time
TickFadeInOut_PerFrame(anims, d) ==
    [i \in DOMAIN anims |-> [anims[i] EXCEPT !.t = @ + 1]]

\* the loop of tick_fade_in_out over the UiImageFadeInOut components
TickFadeInOut(anims, d) ==
    [i \in DOMAIN anims |-> [anims[i] EXCEPT !.t = @ + d]]

\* the loop of apply_fade_in_out over the (UiImageFadeInOut, UiImage) pairs
ApplyFadeInOut(anims) ==
    [i \in DOMAIN anims |-> [anims[i] EXCEPT !.color_alpha = alpha(anims[i])]]

\* tick_fade_in_out, in AppSet::TickTimers
tick_fade_in_out ==
    /\ stage = "Update"
    /\ Runnable("tick_fade_in_out", UpdateSystems)
    /\ ran' = ran \cup {"tick_fade_in_out"}
    /\ children' = IF in_state_splash
                   THEN TickFadeInOut(children, delta)
                   ELSE children
    /\ UNCHANGED <<screen, next_screen, timer, splash_images, container,
                   commands, stage, delta, escape, hist>>
    /\ UNCHANGED <<moveVars, spawnVars>>

\* apply_fade_in_out, in AppSet::Update
apply_fade_in_out ==
    /\ stage = "Update"
    /\ Runnable("apply_fade_in_out", UpdateSystems)
    /\ ran' = ran \cup {"apply_fade_in_out"}
    /\ children' = IF in_state_splash
                   THEN ApplyFadeInOut(children)
                   ELSE children
    /\ UNCHANGED <<screen, next_screen, timer, splash_images, container,
                   commands, stage, delta, escape, hist>>
    /\ UNCHANGED <<moveVars, spawnVars>>

\* tick_splash_timer, in AppSet::TickTimers
tick_splash_timer ==
    /\ stage = "Update"
    /\ Runnable("tick_splash_timer", UpdateSystems)
    /\ ran' = ran \cup {"tick_splash_timer"}
    /\ IF in_state_splash
       THEN /\ timer # <<>>
            /\ timer' = <<TimerTick(timer[1], delta)>>
            /\ hist' = IF TimerJustFinished(timer'[1])
                       THEN [hist EXCEPT !.completions = @ + 1,
                                         !.frame_completed = TRUE]
                       ELSE hist
       ELSE UNCHANGED <<timer, hist>>
    /\ UNCHANGED <<screen, next_screen, splash_images, container, children,
                   commands, stage, delta, escape>>
    /\ UNCHANGED <<moveVars, spawnVars>>

\* check_splash_timer's body with the timer reset left out
CheckSplashTimerBody_NoReset ==
    IF splash_images # <<>>
    THEN <<Tail(splash_images),
           IF container
           THEN Append(commands, [op |-> "replace_children",
                                  path |-> Head(splash_images)])
           ELSE commands,
           timer,
           FALSE>>
    ELSE <<splash_images, commands, timer, TRUE>>

\* check_splash_timer's body reading the front image without removing it
CheckSplashTimerBody_KeepFront ==
    IF splash_images # <<>>
    THEN <<splash_images,
           IF container
           THEN Append(commands, [op |-> "replace_children",
                                  path |-> Head(splash_images)])
           ELSE commands,
           <<TimerReset(timer[1])>>,
           FALSE>>
    ELSE <<splash_images, commands, timer, TRUE>>

\* check_splash_timer's body without the request for the next screen
CheckSplashTimerBody_NoRequest ==
    IF splash_images # <<>>
    THEN <<Tail(splash_images),
           IF container
           THEN Append(commands, [op |-> "replace_children",
                                  path |-> Head(splash_images)])
           ELSE commands,
           <<TimerReset(timer[1])>>,
           FALSE>>
    ELSE <<splash_images, commands, timer, FALSE>>

\* the body of check_splash_timer once the timer has just finished: the
\* resulting <<splash_images, commands, timer, next_screen requested>>
CheckSplashTimerBody ==
    IF splash_images # <<>>
    THEN \* pop_front, replace the displayed image, reset the timer
         <<Tail(splash_images),
           IF container
           THEN Append(commands, [op |-> "replace_children",
                                  path |-> Head(splash_images)])
           ELSE commands,
           <<TimerReset(timer[1])>>,
           FALSE>>
    ELSE \* no more splash screens, exit
         <<splash_images, commands, timer, TRUE>>

\* check_splash_timer, in AppSet::Update
check_splash_timer ==
    /\ stage = "Update"
    /\ Runnable("check_splash_timer", UpdateSystems)
    /\ ran' = ran \cup {"check_splash_timer"}
    /\ IF in_state_splash /\ timer # <<>> /\ TimerJustFinished(timer[1])
       THEN LET r == CheckSplashTimerBody IN
            /\ splash_images' = r[1]
            /\ commands' = r[2]
            /\ timer' = r[3]
            /\ next_screen' = IF r[4] THEN "Loading" ELSE next_screen
            /\ hist' = IF r[4] THEN RequestScreen(hist) ELSE hist
       ELSE UNCHANGED <<splash_images, commands, timer, next_screen, hist>>
    /\ UNCHANGED <<screen, container, children, stage, delta, escape>>
    /\ UNCHANGED <<moveVars, spawnVars>>

\* the skip condition narrowed to frames in which an image is on display
exit_splash_condition_displaying == escape /\ in_state_splash /\ children # <<>>

\* .run_if(input_just_pressed(KeyCode::Escape).and_then(in_state(Screen::Splash)))
exit_splash_condition == escape /\ in_state_splash

\* exit_splash_screen, in no system set
exit_splash_screen ==
    /\ stage = "Update"
    /\ Runnable("exit_splash_screen", UpdateSystems)
    /\ ran' = ran \cup {"exit_splash_screen"}
    /\ IF exit_splash_condition
       THEN /\ next_screen' = "Loading"
            /\ hist' = RequestScreen(hist)
       ELSE UNCHANGED <<next_screen, hist>>
    /\ UNCHANGED <<screen, timer, splash_images, container, children,
                   commands, stage, delta, escape>>
    /\ UNCHANGED <<moveVars, spawnVars>>

SplashNext ==
    \/ spawn_splash
    \/ insert_splash_timer
    \/ BeginFrame
    \/ StateTransition
    \/ tick_fade_in_out
    \/ tick_splash_timer
    \/ apply_fade_in_out
    \/ check_splash_timer
    \/ exit_splash_screen
    \/ apply_deferred
    \/ remove_splash_timer
    \/ clear_state_scoped_entities

\* the splash screen from app start to the exit of Screen::Splash
Spec == SplashInit /\ [][SplashNext]_vars

\* a new frame in which Escape is not pressed
QuietFrame == \E d \in 0 .. MaxDelta : BeginFrameWith(d, FALSE)

\* a new frame of strictly positive elapsed time in which Escape is not pressed
PositiveFrame == \E d \in 1 .. MaxDelta : BeginFrameWith(d, FALSE)

LiveNext ==
    \/ spawn_splash
    \/ insert_splash_timer
    \/ QuietFrame
    \/ StateTransition
    \/ tick_fade_in_out
    \/ tick_splash_timer
    \/ apply_fade_in_out
    \/ check_splash_timer
    \/ exit_splash_screen
    \/ apply_deferred
    \/ remove_splash_timer
    \/ clear_state_scoped_entities

\* the steps of the app other than apply_fade_in_out
LiveOthers ==
    \/ spawn_splash
    \/ insert_splash_timer
    \/ QuietFrame
    \/ StateTransition
    \/ tick_fade_in_out
    \/ tick_splash_timer
    \/ check_splash_timer
    \/ exit_splash_screen
    \/ apply_deferred
    \/ remove_splash_timer
    \/ clear_state_scoped_entities

\* apply_fade_in_out is due: the enabling condition of the action
ApplyFadeDue == stage = "Update" /\ Runnable("apply_fade_in_out", UpdateSystems)

\* weak fairness of apply_fade_in_out, written out with its enabling condition
FairApplyFade == []<>(~ApplyFadeDue) \/ []<><<apply_fade_in_out>>_vars

\* the splash screen without a skip key press: the app runner keeps running
\* the schedules frame after frame and a schedule runs each of its systems
\* (weak fairness of the steps), and frames of strictly positive elapsed time
\* keep occurring (strong fairness of PositiveFrame: frames of zero elapsed
\* time may come in between)
LiveSpec ==
    /\ SplashInit
    /\ [][LiveNext]_vars
    /\ WF_vars(LiveOthers)
    /\ FairApplyFade
    /\ SF_vars(PositiveFrame)

\* Screen::Splash is requested again by a system of another screen and the
\* state transition back to it begins: OnEnter(Screen::Splash) is next
ReturnToSplash ==
    /\ stage = "Exited"
    /\ screen # "Splash"
    /\ hist.visits < MaxVisits
    /\ screen' = "Splash"
    /\ stage' = "OnEnter"
    /\ ran' = {}
    /\ hist' = SplashHistInit(hist.configured, splash_images, hist.visits + 1)
    /\ UNCHANGED <<next_screen, timer, splash_images, container, children,
                   commands, delta, escape>>
    /\ UNCHANGED <<moveVars, spawnVars>>

VisitNext == SplashNext \/ ReturnToSplash

\* the splash screen over several visits of Screen::Splash
VisitSpec == SplashInit /\ [][VisitNext]_vars

\* no schedule of a state transition is in progress
Settled == stage \notin {"OnEnter", "OnExit"}

\* C11: outside the schedules of a state transition (OnEnter, OnExit, whose
\* deferred commands insert and remove the resource), the SplashTimer resource
\* is present iff the current screen is Screen::Splash, over every sequence of
\* entries, ticks, skips and exits; and when an entry to Screen::Splash is
\* complete the timer is fresh: elapsed 0, not finished.
C11_TimerScopedToSplash ==
    /\ Settled => ((timer # <<>>) <=> (screen = "Splash"))
    /\ (stage = "Idle" /\ hist.frames = 0) => timer = <<SplashTimerDefault>>

\* the second visit has been entered after a first visit in which the timer
\* had finished, and its timer is fresh
C11_Witness ==
    /\ hist.visits = 2
    /\ stage = "Idle"
    /\ hist.frames = 0
    /\ hist.configured # <<>>
    /\ splash_images = <<>>
    /\ timer = <<SplashTimerDefault>>

\* C12 as stated: the image queue found on each entry to Screen::Splash is the
\* configured image list, whatever an earlier visit consumed.
C12_QueueScopedToVisit ==
    stage = "OnEnter" => splash_images = hist.configured

-----------------------------------------------------------------------------
(* check_splash_timer on its own: the Update set of one frame, run on a    *)
(* SplashTimer, an image queue and a container (present or absent) drawn   *)
(* from bounded sets.                                                      *)

\* the states of a SplashTimer after two ticks
TickedTimers ==
    {TimerTick(TimerTick(SplashTimerDefault, a), b) : a, b \in 0 .. MaxDelta}

\* the systems of AppSet::TickTimers have run; the queue holds any number of
\* images and the container exists or not
CheckInit ==
    /\ screen = "Splash"
    /\ next_screen = "Unchanged"
    /\ \E tm \in TickedTimers : timer = <<tm>>
    /\ splash_images \in {ImageList(n) : n \in 0 .. MaxQueue}
    /\ container \in BOOLEAN
    /\ children = <<>>
    /\ commands = <<>>
    /\ stage = "Update"
    /\ ran = {"tick_fade_in_out", "tick_splash_timer"}
    /\ delta = 0
    /\ escape \in BOOLEAN
    /\ hist = SplashHistInit(splash_images, splash_images, 1)
    /\ NoMovement
    /\ NoSpawning

CheckNext ==
    \/ check_splash_timer
    \/ apply_fade_in_out
    \/ exit_splash_screen
    \/ apply_deferred

\* the Update set of one frame of the splash screen over bounded inputs
CheckSpec == CheckInit /\ [][CheckNext]_vars

\* check_splash_timer runs in this step with the timer just finished, a
\* non-empty queue and no container
CheckWithoutContainer ==
    /\ stage = "Update"
    /\ "check_splash_timer" \notin ran
    /\ "check_splash_timer" \in ran'
    /\ in_state_splash
    /\ timer # <<>>
    /\ TimerJustFinished(timer[1])
    /\ splash_images # <<>>
    /\ ~container

\* C16 as stated: when the splash timer has just completed, the queue is not
\* empty and the container is absent, check_splash_timer leaves the image
\* queue and the splash timer unchanged.
C16_AbsentContainerNoOp ==
    [][CheckWithoutContainer =>
          (splash_images' = splash_images /\ timer' = timer)]_vars

\* the handler's precondition of C16 does not arise in the splash screen as the
\* systems run it: a just-finished timer with a non-empty queue always finds
\* the container
ContainerFoundWhenQueued ==
    (stage = "Update" /\ in_state_splash /\ timer # <<>>
        /\ TimerJustFinished(timer[1]) /\ splash_images # <<>>) => container

-----------------------------------------------------------------------------
(* The fade curve on its own: one UiImageFadeInOut component whose fields   *)
(* are drawn from bounded sets, ticked and applied.                        *)

\* durations drawn for the component: small ones and the splash constants
FadeDurations(c) == (0 .. MaxDuration) \cup {c}

FadeInit ==
    /\ screen = "Splash"
    /\ next_screen = "Unchanged"
    /\ timer = <<>>
    /\ splash_images = <<>>
    /\ container = TRUE
    /\ \E td \in FadeDurations(SPLASH_DURATION_SECS),
          fd \in FadeDurations(SPLASH_FADE_DURATION_SECS),
          t0 \in 0 .. MaxDuration :
          children = <<[path |-> 1, total_duration |-> td, fade_duration |-> fd,
                        t |-> t0, color_alpha |-> FromInt(1)]>>
    /\ commands = <<>>
    /\ stage = "Fade"
    /\ ran = {}
    /\ delta = 0
    /\ escape = FALSE
    /\ hist = SplashHistInit(<<>>, <<>>, 1)
    /\ NoMovement
    /\ NoSpawning

\* apply_fade_in_out on the component
FadeApply ==
    /\ stage = "Fade"
    /\ "apply_fade_in_out" \notin ran
    /\ children' = ApplyFadeInOut(children)
    /\ ran' = {"apply_fade_in_out"}
    /\ UNCHANGED <<screen, next_screen, timer, splash_images, container,
                   commands, stage, delta, escape, hist>>
    /\ UNCHANGED <<moveVars, spawnVars>>

\* tick_fade_in_out on the component, while t is within twice its duration
FadeTick ==
    /\ stage = "Fade"
    /\ "apply_fade_in_out" \in ran
    /\ children[1].t <= 2 * children[1].total_duration
    /\ \E d \in 1 .. MaxDuration :
          /\ delta' = d
          /\ children' = TickFadeInOut(children, d)
    /\ ran' = {}
    /\ UNCHANGED <<screen, next_screen, timer, splash_images, container,
                   commands, stage, escape, hist>>
    /\ UNCHANGED <<moveVars, spawnVars>>

FadeNext == FadeApply \/ FadeTick

\* UiImageFadeInOut::alpha over bounded inputs
FadeSpec == FadeInit /\ [][FadeNext]_vars

\* the component's alpha is the one apply_fade_in_out computed for its t
FadeApplied == stage = "Fade" /\ "apply_fade_in_out" \in ran

\* 0 <= x <= 1
InUnitInterval(x) == FLe(FromInt(0), x) /\ FLe(x, FromInt(1))

\* C8: for total_duration > 0 and 0 < fade_duration <= total_duration, alpha is
\* 0 at t = 0, 1 at t = total_duration / 2 and 0 at t = total_duration (so for
\* the splash constants 1.8 and 0.6 at t = 0, 0.9 and 1.8), and it lies in
\* [0, 1] for every t >= 0, t > total_duration included.
C8_AlphaBoundaryMidpointRange ==
    FadeApplied =>
        \A i \in DOMAIN children :
            LET a == children[i] IN
            (a.total_duration > 0 /\ 0 < a.fade_duration
                /\ a.fade_duration <= a.total_duration) =>
                /\ a.t = 0 => a.color_alpha = FromInt(0)
                /\ 2 * a.t = a.total_duration => a.color_alpha = FromInt(1)
                /\ a.t = a.total_duration => a.color_alpha = FromInt(0)
                /\ InUnitInterval(a.color_alpha)

\* alpha(0.9, 1.8, 0.6) = 1 has been computed
C8_Witness ==
    /\ FadeApplied
    /\ children[1].total_duration = SPLASH_DURATION_SECS
    /\ children[1].fade_duration = SPLASH_FADE_DURATION_SECS
    /\ 2 * children[1].t = SPLASH_DURATION_SECS
    /\ children[1].color_alpha = FromInt(1)

\* C9 as stated: for total_duration > 0 and 0 < fade_duration <=
\* total_duration / 2, alpha(t) < 1 for 0 <= t < fade_duration, alpha(t) = 1
\* for fade_duration <= t <= total_duration - fade_duration, and alpha(t) < 1
\* for total_duration - fade_duration < t <= total_duration.
C9_TrapezoidShape ==
    FadeApplied =>
        \A i \in DOMAIN children :
            LET a == children[i] IN
            (a.total_duration > 0 /\ 0 < a.fade_duration
                /\ 2 * a.fade_duration <= a.total_duration) =>
                /\ (0 <= a.t /\ a.t < a.fade_duration) =>
                      FLt(a.color_alpha, FromInt(1))
                /\ (a.fade_duration <= a.t
                        /\ a.t <= a.total_duration - a.fade_duration) =>
                      a.color_alpha = FromInt(1)
                /\ (a.total_duration - a.fade_duration < a.t
                        /\ a.t <= a.total_duration) =>
                      FLt(a.color_alpha, FromInt(1))

\* C14 as stated: when total_duration is zero, alpha returns the fully-opaque
\* value 1 for every t and every fade_duration (the division by
\* total_duration is guarded).
C14_ZeroDurationOpaque ==
    FadeApplied =>
        \A i \in DOMAIN children :
            children[i].total_duration = 0 =>
                children[i].color_alpha = FromInt(1)

-----------------------------------------------------------------------------
(* game/movement.rs and demo/player.rs: the movement pipeline.             *)
(* A Vec2 is a pair <<x, y>>.  An intent is stored in fixed point, in      *)
(* units of 1 / IntentScale; a translation is then in units of             *)
(* 1 / (10 * IntentScale) for a speed in units per second and a delta in   *)
(* time units of 0.1 s.                                                    *)

IntentScale == 10 * 10 * 10

\* the eight KeyCode values the input systems read
MovementKeys == {"KeyW", "ArrowUp", "KeyS", "ArrowDown",
                 "KeyA", "ArrowLeft", "KeyD", "ArrowRight"}

\* the largest r in lo .. hi with r * r <= n
RECURSIVE ISqrtIn(_, _, _)
ISqrtIn(n, lo, hi) ==
    IF lo >= hi THEN lo
    ELSE LET mid == (lo + hi + 1) \div 2 IN
         IF mid * mid <= n THEN ISqrtIn(n, mid, hi) ELSE ISqrtIn(n, lo, mid - 1)

\* Vec2::length of an integer vector, in fixed point (rounded down)
LengthFixed(v) ==
    LET n == (v[1] * v[1] + v[2] * v[2]) * IntentScale * IntentScale
    IN  ISqrtIn(n, 0, 2 * IntentScale)

\* x * s / len rounded towards zero
ScaleComponent(x, len) ==
    IF x >= 0 THEN (x * IntentScale * IntentScale) \div len
    ELSE -(((-x) * IntentScale * IntentScale) \div len)

\* normalize_or_zero left out: the collected intent itself, in fixed point
normalize_or_zero_skipped(v) == <<v[1] * IntentScale, v[2] * IntentScale>>

\* Vec2::normalize_or_zero: the vector times the reciprocal of its length when
\* that reciprocal is finite and positive, Vec2::ZERO otherwise
normalize_or_zero(v) ==
    LET len == LengthFixed(v) IN
    IF len = 0 THEN <<0, 0>>
    ELSE <<ScaleComponent(v[1], len), ScaleComponent(v[2], len)>>

\* the intent collected by record_movement_controller before normalisation
CollectIntent(k) ==
    LET y1 == IF "KeyW" \in k \/ "ArrowUp" \in k THEN 1 ELSE 0
        y2 == IF "KeyS" \in k \/ "ArrowDown" \in k THEN y1 - 1 ELSE y1
        x1 == IF "KeyA" \in k \/ "ArrowLeft" \in k THEN -1 ELSE 0
        x2 == IF "KeyD" \in k \/ "ArrowRight" \in k THEN x1 + 1 ELSE x1
    IN  <<x2, y2>>

\* the intent collected by record_player_directional_input before normalisation
CollectPlayerIntent(k) ==
    LET y1 == IF "KeyW" \in k \/ "ArrowUp" \in k THEN 1 ELSE 0
        y2 == IF "KeyS" \in k \/ "ArrowDown" \in k THEN y1 - 1 ELSE y1
        x1 == IF "KeyA" \in k \/ "ArrowLeft" \in k THEN -1 ELSE 0
        x2 == IF "KeyD" \in k \/ "ArrowRight" \in k THEN x1 + 1 ELSE x1
    IN  <<x2, y2>>

\* the entities that carry a MovementController
Entities == {1, 2}

\* the components the movement systems query for
AllComponents == {"MovementController", "Movement", "Transform", "Sprite", "StepSfx"}

\* Timer duration of the StepSfx of entity e, in time units
StepDuration(e) == e

\* a movable entity as constructed: intent zero, at the origin
NewEntity(e, isPlayer, has, speed, flip) ==
    [player |-> isPlayer,
     has |-> has,
     controller |-> <<0, 0>>,
     speed |-> speed,
     translation |-> <<0, 0>>,
     flip_x |-> flip,
     step |-> TimerNew(StepDuration(e), "Repeating")]

\* the worlds the pipeline is run on: entity 1 is the player with every
\* component, entity 2 is a second controlled entity with every component or
\* with a MovementController alone
Worlds ==
    {[e \in Entities |->
        IF e = 1
        THEN NewEntity(e, TRUE, AllComponents, sp, fl)
        ELSE NewEntity(e, FALSE,
                       IF full THEN AllComponents ELSE {"MovementController"},
                       MaxSpeed + 1 - sp, ~fl)] :
     sp \in 1 .. MaxSpeed, fl \in BOOLEAN, full \in BOOLEAN}

\* the systems of the movement pipeline in the Update schedule
MoveSystems == {"tick_step_sfx", "record_movement_controller",
                "record_player_directional_input", "apply_movement",
                "update_facing", "trigger_step_sfx"}

\* the input-capture systems
InputSystems == {"record_movement_controller", "record_player_directional_input"}

\* what the history records when the intent written to the controllers changes:
\* the positions at that moment and the time integrated since
NoteIntent(h, w, intent) ==
    LET changed == \E e \in Entities : w[e].controller # intent IN
    [h EXCEPT !.anchor_pos = IF changed
                             THEN [e \in Entities |-> w[e].translation] ELSE @,
              !.anchor_time = IF changed THEN 0 ELSE @,
              !.anchor_ticks = IF changed THEN 0 ELSE @,
              !.last_dx = IF intent[1] # 0 THEN intent[1] ELSE @]

\* what the systems of a frame find of each entity besides its intent: its
\* position, facing and cadence timer
FrameStart(w) ==
    [e \in Entities |-> [translation |-> w[e].translation,
                         flip_x |-> w[e].flip_x,
                         step |-> w[e].step]]

MoveHistInit(w) ==
    [time |-> 0, frames |-> 0,
     anchor_pos |-> [e \in Entities |-> w[e].translation],
     anchor_time |-> 0, anchor_ticks |-> 0,
     last_dx |-> 0,
     flip0 |-> [e \in Entities |-> w[e].flip_x],
     flip_start |-> [e \in Entities |-> w[e].flip_x],
     start |-> FrameStart(w),
     frame_events |-> [e \in Entities |-> 0],
     suppressed |-> [e \in Entities |-> FALSE]]

\* the state before the first frame: the entities exist, no key is pressed
MoveInit ==
    /\ screen = "Playing"
    /\ next_screen = "Unchanged"
    /\ timer = <<>>
    /\ splash_images = <<>>
    /\ container = FALSE
    /\ children = <<>>
    /\ hist = <<>>
    /\ commands = <<>>
    /\ stage = "Idle"
    /\ ran = {}
    /\ delta = 0
    /\ escape = FALSE
    /\ keys = {}
    /\ world \in Worlds
    /\ sfx = 0
    /\ mhist = MoveHistInit(world)
    /\ NoSpawning

\* record_movement_controller, in AppStep::RecordInput: the intent is written
\* to every MovementController
record_movement_controller ==
    /\ stage = "Update"
    /\ Runnable("record_movement_controller", MoveSystems)
    /\ ran' = ran \cup {"record_movement_controller"}
    /\ LET intent == normalize_or_zero(CollectIntent(keys)) IN
       /\ world' = [e \in Entities |->
                       IF "MovementController" \in world[e].has
                       THEN [world[e] EXCEPT !.controller = intent]
                       ELSE world[e]]
       /\ mhist' = NoteIntent(mhist, world, intent)
    /\ UNCHANGED <<splashVars, spawnVars, commands, stage, delta, escape, keys, sfx>>

\* record_player_directional_input, in AppSet::RecordInput: the intent is
\* written to the MovementController of every Player
record_player_directional_input ==
    /\ stage = "Update"
    /\ Runnable("record_player_directional_input", MoveSystems)
    /\ ran' = ran \cup {"record_player_directional_input"}
    /\ LET intent == normalize_or_zero(CollectPlayerIntent(keys)) IN
       /\ world' = [e \in Entities |->
                       IF "MovementController" \in world[e].has /\ world[e].player
                       THEN [world[e] EXCEPT !.controller = intent]
                       ELSE world[e]]
       /\ mhist' = NoteIntent(mhist, world, intent)
    /\ UNCHANGED <<splashVars, spawnVars, commands, stage, delta, escape, keys, sfx>>

-----------------------------------------------------------------------------
(* Properties of the splash sequence.                                      *)

\* the frame has run to its end (all of Update, deferred commands applied)
FrameEnded == stage = "Idle" /\ hist.frames > 0

\* a run entered with exactly two images in which Escape was never pressed
TwoImageRun == Len(hist.queue0) = 2 /\ ~hist.esc_ever

\* the frame in which the splash timer completed for the n-th time has ended
CompletionFrame(n) ==
    FrameEnded /\ hist.frame_completed /\ hist.completions = n

\* C1 as stated: with a 2-image queue and no skip key, the first completion of
\* the splash timer swaps the display to image 2 with t = 0, the second
\* completion finds the queue empty and emits the next-screen request, and the
\* request is emitted exactly once over the run.
C1_AsStated ==
    TwoImageRun =>
        /\ CompletionFrame(1) =>
              children = <<splash_image_bundle(hist.queue0[2])>>
        /\ CompletionFrame(2) =>
              /\ splash_images = <<>>
              /\ next_screen = "Loading"
              /\ hist.requests = 1
        /\ hist.requests <= 1

\* C1 (amended): with a 2-image queue and no skip key, the container starts
\* without an image; the first completion of the splash timer puts image 1 on
\* display, the second swaps the display to image 2, each with t = 0 and the
\* timer reset, and the third completion finds the queue empty and emits the
\* next-screen request (Screen::Loading), which is emitted exactly once over
\* the whole run.
C1_TwoImageSequence ==
    TwoImageRun =>
        /\ hist.completions = 0 => children = <<>> /\ hist.requests = 0
        /\ CompletionFrame(1) =>
              /\ children = <<splash_image_bundle(hist.queue0[1])>>
              /\ timer = <<SplashTimerDefault>>
              /\ splash_images = <<hist.queue0[2]>>
              /\ hist.requests = 0
        /\ CompletionFrame(2) =>
              /\ children = <<splash_image_bundle(hist.queue0[2])>>
              /\ timer = <<SplashTimerDefault>>
              /\ splash_images = <<>>
              /\ hist.requests = 0
        /\ CompletionFrame(3) =>
              /\ splash_images = <<>>
              /\ next_screen = "Loading"
              /\ hist.requests = 1
        /\ hist.completions <= 3
        /\ hist.requests <= 1
        /\ hist.requests = 1 => hist.completions = 3
        /\ stage = "Exited" => hist.requests = 1 /\ hist.shown = hist.queue0

\* a 2-image run without skip that has been played to its exit
C1_Witness ==
    /\ TwoImageRun
    /\ stage = "Exited"
    /\ screen = "Loading"
    /\ hist.completions = 3
    /\ hist.requests = 1
    /\ hist.shown = <<1, 2>>

\* C2: in every frame in which the splash screen is active and Escape has just
\* been pressed, a next-screen request (Screen::Loading) has been emitted by
\* the end of that frame, whatever the queue, the timer and the fade time are.
C2_SkipSameTick ==
    /\ (FrameEnded /\ escape) =>
          hist.frame_requests >= 1 /\ next_screen = "Loading"
    /\ (stage = "Update" /\ escape /\ "exit_splash_screen" \in ran) =>
          hist.frame_requests >= 1 /\ next_screen = "Loading"

\* Escape pressed while the container exists but no image has been displayed
\* yet and images remain queued: the request is out at the end of the frame
C2_Witness ==
    /\ FrameEnded
    /\ escape
    /\ container
    /\ children = <<>>
    /\ hist.shown = <<>>
    /\ splash_images # <<>>
    /\ timer # <<>> /\ timer[1].elapsed > 0
    /\ hist.frame_requests = 1
    /\ next_screen = "Loading"

\* spawn_splash has run
Entered == stage # "OnEnter" \/ "spawn_splash" \in ran

\* C10: on entering the splash screen with an empty queue the transition to
\* Screen::Loading is requested in the entry step and the container is never
\* constructed; with a non-empty queue the container is constructed on entry
\* and exists in every later frame until the splash screen is exited.
C10_ContainerOnEntry ==
    /\ hist.queue0 = <<>> =>
          /\ ~container
          /\ \A i \in DOMAIN commands : commands[i].op # "spawn_container"
          /\ Entered => hist.requests >= 1
          /\ (Entered /\ screen = "Splash") => next_screen = "Loading"
    /\ hist.queue0 # <<>> =>
          /\ (stage = "OnEnter" /\ Entered) =>
                \E i \in DOMAIN commands : commands[i].op = "spawn_container"
          /\ (stage # "OnEnter" /\ screen = "Splash") => container
          /\ stage = "OnEnter" => hist.requests = 0

\* a non-empty queue: the container is still there after several frames, with
\* the second image on display
C10_Witness ==
    /\ hist.queue0 # <<>>
    /\ FrameEnded
    /\ screen = "Splash"
    /\ container
    /\ Len(hist.shown) = 2

\* C17 as stated: the fade time t of a displayed splash image is between 0 and
\* total_duration in every reachable state, ticks that overshoot the remaining
\* time and ticks after the last completion included.
C17_FadeTimeWithinTotal ==
    \A i \in DOMAIN children :
        0 <= children[i].t /\ children[i].t <= children[i].total_duration

\* an image is on display and the splash timer has not finished
Displaying ==
    /\ screen = "Splash"
    /\ children # <<>>
    /\ timer # <<>>
    /\ ~timer[1].finished

\* C18: at the end of every tick in which an image is on display and the
\* splash timer has not finished, the image's fade time t equals the timer's
\* elapsed time; at the end of the tick in which an image was put on display
\* both are 0.
C18_FadeAndTimerLockstep ==
    FrameEnded =>
        /\ Displaying => children[1].t = timer[1].elapsed
        /\ hist.frame_shown =>
              /\ Displaying
              /\ children[1].t = 0
              /\ timer[1].elapsed = 0

\* the second image is on display mid-period, after a frame of non-zero
\* elapsed time: fade time and timer agree on a value other than 0
C18_Witness ==
    /\ FrameEnded
    /\ Displaying
    /\ Len(hist.shown) = 2
    /\ delta > 0
    /\ children[1].t = timer[1].elapsed
    /\ children[1].t > 1

\* a run entered with at least one image in which Escape was never pressed
UnskippedRun == Len(hist.queue0) >= 1 /\ ~hist.esc_ever

\* seq p is a prefix of seq q
IsPrefix(p, q) ==
    Len(p) <= Len(q) /\ \A i \in DOMAIN p : p[i] = q[i]

\* the image on display is being replaced in this frame
BeingReplaced ==
    \E i \in DOMAIN commands : commands[i].op = "replace_children"

\* C19: without a skip key, for a queue of N >= 1 images: the images put on
\* display are the queue's images in queue order, each exactly once by the
\* time of the exit; at most one image is on display at any time, the one put
\* on display last; an image is replaced, and the next-screen request emitted,
\* only when the image on display has been there for a full period of the
\* splash timer; at most one image is consumed per tick; and the request is
\* emitted only after all N images have been put on display.
C19_ImagesInOrderOncePerPeriod ==
    UnskippedRun =>
        /\ IsPrefix(hist.shown, hist.queue0)
        /\ Settled =>
              /\ hist.shown \o splash_images = hist.queue0 \/ BeingReplaced
              /\ Len(children) <= 1
              /\ (children # <<>> /\ screen = "Splash") =>
                    children[1].path = hist.shown[Len(hist.shown)]
        /\ (BeingReplaced /\ children # <<>>) =>
              children[1].t >= SPLASH_DURATION_SECS
        /\ Len(hist.frame_queue) - Len(splash_images) \in {0, 1}
        /\ hist.requests >= 1 =>
              /\ hist.shown = hist.queue0
              /\ splash_images = <<>>
              /\ screen = "Splash" =>
                    /\ children # <<>>
                    /\ children[1].t >= SPLASH_DURATION_SECS
        /\ stage = "Exited" => hist.shown = hist.queue0 /\ hist.requests = 1

\* a run of three images without skip, played to its exit, whose last frame
\* overshot the timer
C19_Witness ==
    /\ ~hist.esc_ever
    /\ stage = "Exited"
    /\ hist.queue0 = <<1, 2, 3>>
    /\ hist.shown = <<1, 2, 3>>
    /\ hist.completions = 4
    /\ delta = MaxDelta

\* the splash sequence is stuck: the frame is over, the timer has finished, the
\* queue is empty and no request for the next screen has been emitted
Stuck ==
    /\ FrameEnded
    /\ screen = "Splash"
    /\ timer # <<>>
    /\ timer[1].finished
    /\ splash_images = <<>>
    /\ hist.requests = 0

\* C20: for every initial image queue, the empty one included, when frames of
\* strictly positive elapsed time keep occurring and no skip key is pressed, a
\* next-screen request (Screen::Loading) is eventually emitted and the splash
\* screen is eventually exited; and no reachable state is stuck with the timer
\* finished, the queue empty and no request emitted.
C20_SplashTerminates ==
    /\ <>(hist.requests >= 1 /\ next_screen = "Loading")
    /\ <>(stage = "Exited" /\ screen = "Loading")
    /\ []~Stuck

\* a queue of three images has been played to the exit without a skip key,
\* with frames of zero elapsed time on the way
C20_Witness ==
    /\ stage = "Exited"
    /\ screen = "Loading"
    /\ hist.queue0 = <<1, 2, 3>>
    /\ hist.shown = <<1, 2, 3>>
    /\ hist.requests = 1
    /\ ~hist.esc_ever
    /\ delta = 0

\* the loop body of apply_movement with the frame's elapsed time left out
ApplyMovement_NoDelta(ent, d) ==
    LET velocity == <<ent.speed * ent.controller[1], ent.speed * ent.controller[2]>>
    IN  [ent EXCEPT !.translation = <<@[1] + velocity[1], @[2] + velocity[2]>>]

\* the loop body of apply_movement: translation += speed * intent * delta
ApplyMovement(ent, d) ==
    LET velocity == <<ent.speed * ent.controller[1], ent.speed * ent.controller[2]>>
    IN  [ent EXCEPT !.translation = <<@[1] + velocity[1] * d, @[2] + velocity[2] * d>>]

\* apply_movement, in AppStep::Update, over (MovementController, Movement,
\* Transform)
apply_movement ==
    /\ stage = "Update"
    /\ Runnable("apply_movement", MoveSystems)
    /\ ran' = ran \cup {"apply_movement"}
    /\ world' = [e \in Entities |->
                    IF {"MovementController", "Movement", "Transform"}
                          \subseteq world[e].has
                    THEN ApplyMovement(world[e], delta)
                    ELSE world[e]]
    /\ mhist' = [mhist EXCEPT !.anchor_time = @ + delta,
                              !.anchor_ticks = IF delta > 0 /\ @ < 2
                                               THEN @ + 1 ELSE @]
    /\ UNCHANGED <<splashVars, spawnVars, commands, stage, delta, escape, keys, sfx>>

\* the loop body of update_facing with the facing reset on a zero intent
UpdateFacing_Unconditional(ent) ==
    LET dx == ent.controller[1] IN [ent EXCEPT !.flip_x = dx < 0]

\* the loop body of update_facing
UpdateFacing(ent) ==
    LET dx == ent.controller[1] IN
    IF dx # 0 THEN [ent EXCEPT !.flip_x = dx < 0] ELSE ent

\* update_facing, in AppStep::Update, over (MovementController, Sprite)
update_facing ==
    /\ stage = "Update"
    /\ Runnable("update_facing", MoveSystems)
    /\ ran' = ran \cup {"update_facing"}
    /\ world' = [e \in Entities |->
                    IF {"MovementController", "Sprite"} \subseteq world[e].has
                    THEN UpdateFacing(world[e])
                    ELSE world[e]]
    /\ UNCHANGED <<splashVars, spawnVars, commands, stage, delta, escape, keys, sfx, mhist>>

\* tick_step_sfx pausing the cadence timer of an entity that does not move
tick_step_sfx_moving_only ==
    /\ stage = "Update"
    /\ Runnable("tick_step_sfx", MoveSystems)
    /\ ran' = ran \cup {"tick_step_sfx"}
    /\ world' = [e \in Entities |->
                    IF "StepSfx" \in world[e].has /\ world[e].controller # <<0, 0>>
                    THEN [world[e] EXCEPT !.step = TimerTick(@, delta)]
                    ELSE world[e]]
    /\ UNCHANGED <<splashVars, spawnVars, commands, stage, delta, escape, keys, sfx, mhist>>

\* tick_step_sfx, in AppStep::TickTimers, over StepSfx
tick_step_sfx ==
    /\ stage = "Update"
    /\ Runnable("tick_step_sfx", MoveSystems)
    /\ ran' = ran \cup {"tick_step_sfx"}
    /\ world' = [e \in Entities |->
                    IF "StepSfx" \in world[e].has
                    THEN [world[e] EXCEPT !.step = TimerTick(@, delta)]
                    ELSE world[e]]
    /\ UNCHANGED <<splashVars, spawnVars, commands, stage, delta, escape, keys, sfx, mhist>>

\* the number of Sfx::Step triggers for one entity, were one sent for every
\* completion of the cadence timer within the frame
StepTriggers_PerCompletion(ent) ==
    IF ent.controller # <<0, 0>> THEN ent.step.times_finished_this_tick ELSE 0

\* the number of Sfx::Step triggers for one entity without the intent test
StepTriggers_AnyIntent(ent) ==
    IF TimerJustFinished(ent.step) THEN 1 ELSE 0

\* the number of Sfx::Step triggers trigger_step_sfx sends for one entity
StepTriggers(ent) ==
    IF ent.controller # <<0, 0>> /\ TimerJustFinished(ent.step) THEN 1 ELSE 0

\* n commands.trigger(Sfx::Step) appended to the command queue
RECURSIVE QueueTriggers(_, _)
QueueTriggers(cs, n) ==
    IF n = 0 THEN cs
    ELSE QueueTriggers(Append(cs, [op |-> "trigger_sfx_step"]), n - 1)

\* the sum of f over the entities in S
RECURSIVE SumOver(_, _)
SumOver(f, S) ==
    IF S = {} THEN 0
    ELSE LET e == CHOOSE x \in S : TRUE IN f[e] + SumOver(f, S \ {e})

\* trigger_step_sfx, in AppStep::Update, over (MovementController, StepSfx)
trigger_step_sfx ==
    /\ stage = "Update"
    /\ Runnable("trigger_step_sfx", MoveSystems)
    /\ ran' = ran \cup {"trigger_step_sfx"}
    /\ LET n == [e \in Entities |->
                    IF {"MovementController", "StepSfx"} \subseteq world[e].has
                    THEN StepTriggers(world[e])
                    ELSE 0]
       IN  /\ commands' = QueueTriggers(commands, SumOver(n, Entities))
           /\ mhist' = [mhist EXCEPT !.frame_events = n]
    /\ UNCHANGED <<splashVars, spawnVars, stage, delta, escape, keys, world, sfx>>

\* the key sets the pipeline is driven with: none, left, right by both of its
\* synonyms, up alone (a non-zero intent with no horizontal part), a diagonal
KeyCombos ==
    {{}, {"KeyA"}, {"KeyD", "ArrowRight"}, {"KeyW"}, {"ArrowLeft", "KeyS"}}

\* a new frame of the pipeline: ButtonInput and Time are updated
MoveBeginFrame ==
    /\ stage = "Idle"
    /\ \E k \in KeyCombos, d \in 0 .. MaxMoveDelta :
          /\ mhist.time + d <= MaxMoveTime
          /\ keys' = k
          /\ delta' = d
          /\ mhist' = [mhist EXCEPT
                !.time = @ + d,
                !.frames = IF @ < 2 THEN @ + 1 ELSE @,
                !.flip_start = [e \in Entities |-> world[e].flip_x],
                !.start = FrameStart(world),
                !.frame_events = [e \in Entities |-> 0],
                !.suppressed = [e \in Entities |->
                    @[e] \/ (/\ "StepSfx" \in world[e].has
                             /\ TimerJustFinished(world[e].step)
                             /\ world[e].controller = <<0, 0>>)]]
    /\ sfx' = 0
    /\ stage' = "Update"
    /\ ran' = {}
    /\ UNCHANGED <<splashVars, spawnVars, commands, escape, world>>

\* end of Update: the queued Sfx::Step triggers are delivered
MoveEndFrame ==
    /\ stage = "Update"
    /\ ran = MoveSystems
    /\ sfx' = Len(SelectSeq(commands, LAMBDA c : c.op = "trigger_sfx_step"))
    /\ commands' = <<>>
    /\ stage' = "Idle"
    /\ ran' = {}
    /\ UNCHANGED <<splashVars, spawnVars, delta, escape, keys, world, mhist>>

MoveNext ==
    \/ MoveBeginFrame
    \/ tick_step_sfx
    \/ record_movement_controller
    \/ record_player_directional_input
    \/ apply_movement
    \/ update_facing
    \/ trigger_step_sfx
    \/ MoveEndFrame

\* the movement pipeline over a bounded run of frames
MoveSpec == MoveInit /\ [][MoveNext]_vars

-----------------------------------------------------------------------------
(* The input-capture pass on its own, over every subset of the eight keys. *)

\* a new snapshot of ButtonInput: any subset of the movement keys is pressed
InputBeginFrame ==
    /\ stage = "Idle"
    /\ keys' \in SUBSET MovementKeys
    /\ mhist' = [mhist EXCEPT !.frames = IF @ < 2 THEN @ + 1 ELSE @]
    /\ stage' = "Update"
    /\ ran' = {}
    /\ UNCHANGED <<splashVars, spawnVars, commands, delta, escape, world, sfx>>

\* the input-capture pass is over
InputEndFrame ==
    /\ stage = "Update"
    /\ ran = InputSystems
    /\ stage' = "Idle"
    /\ ran' = {}
    /\ UNCHANGED <<splashVars, spawnVars, commands, delta, escape, keys, world, sfx, mhist>>

InputNext ==
    \/ InputBeginFrame
    \/ record_movement_controller
    \/ record_player_directional_input
    \/ InputEndFrame

\* record_movement_controller and record_player_directional_input over every
\* key state
InputSpec == MoveInit /\ [][InputNext]_vars

-----------------------------------------------------------------------------
(* Properties of the movement pipeline.                                    *)

\* the frame of the pipeline has run to its end
MoveFrameEnded == stage = "Idle" /\ mhist.frames > 0

Has(e, cs) == cs \subseteq world[e].has

\* one axis of the key state: +1 for the positive direction alone, -1 for the
\* negative direction alone, 0 for neither or both; a direction is pressed
\* when either of its two keys is
Axis(k, pos, neg) ==
    IF (pos \cap k # {}) = (neg \cap k # {}) THEN 0
    ELSE IF pos \cap k # {} THEN 1 ELSE -1

AxisX(k) == Axis(k, {"KeyD", "ArrowRight"}, {"KeyA", "ArrowLeft"})
AxisY(k) == Axis(k, {"KeyW", "ArrowUp"}, {"KeyS", "ArrowDown"})

\* v has length 1 up to the rounding of the fixed-point components
IsUnit(v) ==
    Abs(v[1] * v[1] + v[2] * v[2] - IntentScale * IntentScale) <= 4 * IntentScale

\* C6: after every input-capture pass, for every subset of the eight movement
\* keys, the intent of every MovementController is the zero vector or a unit
\* vector; each axis contributes -1, 0 or +1 (synonyms count once, opposing
\* directions cancel), and the intent is zero exactly when both axes are 0.
C6_IntentUnitOrZero ==
    /\ \A e \in Entities :
          Has(e, {"MovementController"}) =>
              world[e].controller = <<0, 0>> \/ IsUnit(world[e].controller)
    /\ MoveFrameEnded =>
          \A e \in Entities :
              Has(e, {"MovementController"}) =>
                  LET v == world[e].controller IN
                  /\ Sign(<<v[1], 1>>) = AxisX(keys)
                  /\ Sign(<<v[2], 1>>) = AxisY(keys)
                  /\ (v = <<0, 0>>) <=> (AxisX(keys) = 0 /\ AxisY(keys) = 0)
                  /\ (AxisX(keys) # 0 /\ AxisY(keys) # 0) => Abs(v[1]) = Abs(v[2])
                  /\ (AxisX(keys) # 0 /\ AxisY(keys) = 0) => Abs(v[1]) = IntentScale
                  /\ (AxisX(keys) = 0 /\ AxisY(keys) # 0) => Abs(v[2]) = IntentScale

\* up and right pressed through both synonyms, down pressed too: the vertical
\* axis cancels and the intent is the unit vector to the right, on both entities
C6_Witness ==
    /\ MoveFrameEnded
    /\ keys = {"KeyW", "ArrowUp", "KeyS", "KeyD", "ArrowRight"}
    /\ \A e \in Entities : world[e].controller = <<IntentScale, 0>>

\* C7: for constant intent and speed, after ticks with elapsed times dt1..dtn
\* the position is initial_position + speed * intent * (dt1 + ... + dtn), so
\* integrating dt1 + dt2 in one tick equals integrating dt1 and then dt2.
C7_IntegrationLinear ==
    \A e \in Entities :
        Has(e, {"MovementController", "Movement", "Transform"}) =>
            world[e].translation =
                <<mhist.anchor_pos[e][1]
                      + world[e].speed * world[e].controller[1] * mhist.anchor_time,
                  mhist.anchor_pos[e][2]
                      + world[e].speed * world[e].controller[2] * mhist.anchor_time>>

\* a diagonal intent held over two ticks of non-zero elapsed time, 3 time units
\* in all: the player has moved down and left
C7_Witness ==
    /\ MoveFrameEnded
    /\ mhist.anchor_ticks = 2
    /\ mhist.anchor_time = 3
    /\ world[1].controller[1] < 0 /\ world[1].controller[2] < 0
    /\ world[1].translation # <<0, 0>>

\* C5: the facing flag equals (dx < 0) for the most recent non-zero horizontal
\* intent dx, or its initial value if there was none; a tick with horizontal
\* intent zero leaves it unchanged, and it changes only on a tick whose
\* non-zero horizontal intent has the sign opposite to the stored facing.
C5_FacingSticky ==
    MoveFrameEnded =>
        \A e \in Entities :
            Has(e, {"MovementController", "Sprite"}) =>
                LET dx == world[e].controller[1] IN
                /\ world[e].flip_x = IF mhist.last_dx = 0 THEN mhist.flip0[e]
                                     ELSE mhist.last_dx < 0
                /\ dx = 0 => world[e].flip_x = mhist.flip_start[e]
                /\ world[e].flip_x # mhist.flip_start[e] =>
                      dx # 0 /\ (dx < 0) # mhist.flip_start[e]

\* the player moved left and then up: the horizontal intent is zero while the
\* intent is not, and the player still faces left
C5_Witness ==
    /\ MoveFrameEnded
    /\ mhist.flip0[1] = FALSE
    /\ mhist.last_dx < 0
    /\ world[1].controller[1] = 0
    /\ world[1].controller[2] > 0
    /\ world[1].flip_x = TRUE

\* C4: in every tick, Sfx::Step is triggered for an entity with a
\* MovementController and a StepSfx iff its intent in that tick is non-zero and
\* its cadence timer just completed in that tick; at most one trigger per
\* entity per tick even when the elapsed time spans several periods, and a
\* completion on a tick with zero intent yields no trigger then or later.
C4_StepTriggerEdge ==
    MoveFrameEnded =>
        /\ \A e \in Entities :
              /\ Has(e, {"MovementController", "StepSfx"}) =>
                    /\ mhist.frame_events[e] = 1 <=>
                          (/\ world[e].controller # <<0, 0>>
                           /\ world[e].step.times_finished_this_tick >= 1)
                    /\ mhist.frame_events[e] \in {0, 1}
              /\ ~Has(e, {"MovementController", "StepSfx"}) =>
                    mhist.frame_events[e] = 0
        /\ sfx = SumOver(mhist.frame_events, Entities)

\* the player's timer completed on an earlier tick with zero intent; in this
\* tick the player moves, the elapsed time spans two cadence periods, and one
\* trigger is sent for the player
C4_Witness ==
    /\ MoveFrameEnded
    /\ mhist.suppressed[1]
    /\ world[1].controller # <<0, 0>>
    /\ world[1].step.times_finished_this_tick = 2
    /\ mhist.frame_events[1] = 1

\* the passes of one tick in the order input capture, intent write,
\* integration, facing update, cadence-timer tick, each over all entities
\* before the next: the world that results from the entities as the frame
\* found them, the key state k and the elapsed time d
SeqTick(w, st, k, d) ==
    LET intent == normalize_or_zero(CollectIntent(k))
        pintent == normalize_or_zero(CollectPlayerIntent(k))
        w0 == [e \in Entities |->
                 [w[e] EXCEPT !.translation = st[e].translation,
                              !.flip_x = st[e].flip_x,
                              !.step = st[e].step]]
        w1 == [e \in Entities |->
                 IF "MovementController" \in w0[e].has
                 THEN [w0[e] EXCEPT !.controller =
                          IF w0[e].player THEN pintent ELSE intent]
                 ELSE w0[e]]
        w2 == [e \in Entities |->
                 IF {"MovementController", "Movement", "Transform"}
                       \subseteq w1[e].has
                 THEN ApplyMovement(w1[e], d) ELSE w1[e]]
        w3 == [e \in Entities |->
                 IF {"MovementController", "Sprite"} \subseteq w2[e].has
                 THEN UpdateFacing(w2[e]) ELSE w2[e]]
    IN  [e \in Entities |->
           IF "StepSfx" \in w3[e].has
           THEN [w3[e] EXCEPT !.step = TimerTick(@, d)] ELSE w3[e]]

\* the trigger check as the last pass, on the world the other passes left
SeqTriggers(w) ==
    [e \in Entities |->
        IF {"MovementController", "StepSfx"} \subseteq w[e].has
        THEN StepTriggers(w[e]) ELSE 0]

\* the systems of the sets RecordInput and TickTimers have all run
InputAndTimersDone ==
    InputSystems \cup {"tick_step_sfx"} \subseteq ran

\* the intent of every controlled entity is the one derived from the key state
\* of the current frame
IntentIsOfThisFrame ==
    \A e \in Entities :
        Has(e, {"MovementController"}) =>
            world[e].controller = normalize_or_zero(CollectIntent(keys))

\* the cadence timers are as ticked in the current frame
TimersAreOfThisFrame ==
    \A e \in Entities :
        Has(e, {"StepSfx"}) =>
            world[e].step = TimerTick(mhist.start[e].step, delta)

\* the consequences C13 draws: integration, facing update and trigger check
\* read the intent of the same frame's key state, and the trigger check reads
\* the timers as ticked in the same frame
C13_Consequences ==
    /\ (stage = "Update"
            /\ ran \cap {"apply_movement", "update_facing", "trigger_step_sfx"}
                  # {}) =>
          IntentIsOfThisFrame
    /\ (stage = "Update" /\ "trigger_step_sfx" \in ran) => TimersAreOfThisFrame
    /\ MoveFrameEnded =>
          /\ world = SeqTick(world, mhist.start, keys, delta)
          /\ mhist.frame_events = SeqTriggers(world)

\* C13 as stated: in every tick the systems run in the order input capture,
\* intent write, position integration, facing update, cadence-timer tick,
\* timer-trigger check, each completing before the next begins, under every
\* scheduling the system sets allow; and the consequences hold.
C13_AsStated ==
    /\ stage = "Update" =>
          /\ "apply_movement" \in ran => InputSystems \subseteq ran
          /\ "update_facing" \in ran => "apply_movement" \in ran
          /\ "tick_step_sfx" \in ran => "update_facing" \in ran
          /\ "trigger_step_sfx" \in ran => "tick_step_sfx" \in ran
    /\ C13_Consequences

\* C13 (amended): in every tick, under every scheduling the system sets allow,
\* input capture and intent write and the cadence-timer tick complete over all
\* entities before position integration, facing update and the timer-trigger
\* check begin; these three run in any order, and the timer tick in any order
\* with input capture.  Consequently integration, facing update and trigger
\* check read the intent of that tick's input snapshot, the trigger check sees
\* the timers as ticked in that tick, and the state at the end of the tick is
\* the one the order input capture, intent write, integration, facing update,
\* timer tick, trigger check produces.
C13_SetOrderAndResult ==
    /\ (stage = "Update"
            /\ ran \cap {"apply_movement", "update_facing", "trigger_step_sfx"}
                  # {}) =>
          InputAndTimersDone
    /\ C13_Consequences

\* the trigger check has run before the facing update and the integration, in
\* a frame in which the intent changed to the left, the player turned and the
\* cadence timer completed
C13_Witness ==
    /\ stage = "Update"
    /\ "trigger_step_sfx" \in ran
    /\ "apply_movement" \notin ran
    /\ "update_facing" \notin ran
    /\ delta > 0
    /\ world[1].controller[1] < 0
    /\ ~world[1].flip_x
    /\ mhist.frame_events[1] = 1

\* C15: the state of the step cadence timer after every tick is a function of
\* the elapsed times alone: with period D, total elapsed time T and last
\* elapsed time d, its elapsed value is T mod D and it has just finished iff
\* (T - d) mod D + d >= D, whatever keys were pressed in any tick; so two runs
\* with the same elapsed times and different key presses agree on it after
\* every tick, and no intent change resets or pauses it.
C15_CadenceIndependentOfIntent ==
    (MoveFrameEnded \/ (stage = "Update" /\ "tick_step_sfx" \in ran)) =>
        \A e \in Entities :
            Has(e, {"StepSfx"}) =>
                LET D == world[e].step.duration
                    n == (((mhist.time - delta) % D) + delta) \div D
                IN  /\ world[e].step.elapsed = mhist.time % D
                    /\ world[e].step.times_finished_this_tick = n
                    /\ TimerJustFinished(world[e].step) <=> n >= 1
                    /\ world[e].step.finished <=> n >= 1

\* the entities moved and then stopped; in the tick in which they stand still
\* the cadence timer of entity 2 has advanced and just finished, mid-phase
C15_Witness ==
    /\ MoveFrameEnded
    /\ mhist.last_dx # 0
    /\ \A e \in Entities : world[e].controller = <<0, 0>>
    /\ Has(2, {"StepSfx"})
    /\ delta > 0
    /\ TimerJustFinished(world[2].step)
    /\ world[2].step.elapsed = 1

-----------------------------------------------------------------------------
(* game/spawn/level.rs, demo/level.rs, demo/player.rs: the spawn cascade.  *)
(* The commands an issuing system has queued are applied one after the     *)
(* other; a command that queues commands itself (an observer run by a      *)
(* trigger) has those applied right after it, before the next command of   *)
(* the queue it came from.  dispatch is the stack of the queues in         *)
(* progress, each with the command whose application filled it.            *)

\* commands.trigger(event)
Trigger(event) == [op |-> "trigger", what |-> event]
\* commands.spawn(bundle)
Spawn(bundle) == [op |-> "spawn", what |-> bundle]
\* commands.spawn_with(constructor)
SpawnWith(f) == [op |-> "spawn_with", what |-> f]

\* the commands an issuing system may queue: the level requested through its
\* event or through its constructor, and an unrelated entity
IssuerCommands == {Trigger("SpawnLevel"), SpawnWith("level"), Spawn("Other")}

\* the sequences over S of length 1 .. n
SeqsUpTo(S, n) == UNION {[1 .. k -> S] : k \in 1 .. n}

\* the queue and the command of the innermost dispatch in progress
Top == dispatch[Len(dispatch)]

\* the stack with the head of the innermost queue taken off
PopHead == [dispatch EXCEPT ![Len(dispatch)].queue = Tail(@)]

\* the stack after the head command c queued the commands q while applied
PushQueue(c, q) == Append(PopHead, [cause |-> c, queue |-> q])

SpawnInit ==
    /\ screen = "Playing"
    /\ next_screen = "Unchanged"
    /\ timer = <<>>
    /\ splash_images = <<>>
    /\ container = FALSE
    /\ children = <<>>
    /\ hist = <<>>
    /\ commands = <<>>
    /\ stage = "Idle"
    /\ ran = {}
    /\ delta = 0
    /\ escape = FALSE
    /\ NoMovement
    /\ spawned = <<>>
    /\ \E q \in SeqsUpTo(IssuerCommands, MaxSpawnCommands) :
          /\ dispatch = <<[cause |-> [op |-> "apply_deferred", what |-> "issuer"],
                           queue |-> q]>>
          /\ shist = [issued |-> q, completed |-> <<>>]

\* a command is at the head of the innermost queue
HeadIs(c) == dispatch # <<>> /\ Top.queue # <<>> /\ Head(Top.queue) = c

\* what spawn_level queues, with the trigger of SpawnPlayer left out
SpawnLevelCommands_NoPlayer == <<Spawn("Camera2dBundle")>>

\* what spawn_level queues: the camera, then the trigger of SpawnPlayer
SpawnLevelCommands == <<Spawn("Camera2dBundle"), Trigger("SpawnPlayer")>>

\* spawn_level, the observer of SpawnLevel
spawn_level ==
    /\ HeadIs(Trigger("SpawnLevel"))
    /\ dispatch' = PushQueue(Trigger("SpawnLevel"), SpawnLevelCommands)
    /\ UNCHANGED <<splashVars, frameVars, moveVars, spawned, shist>>

\* the observer of SpawnPlayer: it spawns the player entity
spawn_player ==
    /\ HeadIs(Trigger("SpawnPlayer"))
    /\ dispatch' = PushQueue(Trigger("SpawnPlayer"), <<Spawn("Player")>>)
    /\ UNCHANGED <<splashVars, frameVars, moveVars, spawned, shist>>

\* a queued commands.spawn(bundle) is applied
apply_spawn ==
    /\ \E b \in {"Camera2dBundle", "Player", "Other"} :
          /\ HeadIs(Spawn(b))
          /\ spawned' = Append(spawned, [kind |-> b, parent |-> 0])
    /\ dispatch' = PopHead
    /\ UNCHANGED <<splashVars, frameVars, moveVars, shist>>

\* player(id, world): the Player components are inserted into entity id
player(ents, id) == [ents EXCEPT ![id].kind = "Player"]

\* spawn_with(f) on a child builder: an empty child of entity id is spawned
\* and the constructor is run on it
SpawnChildWith(ents, id) ==
    Append(ents, [kind |-> "Empty", parent |-> id])

\* level(id, world): the Level components are inserted into entity id and a
\* child is constructed by player
level ==
    /\ HeadIs(SpawnWith("level"))
    /\ LET id == Len(spawned) + 1
           withLevel == Append(spawned, [kind |-> "Level", parent |-> 0])
           withChild == SpawnChildWith(withLevel, id)
       IN  spawned' = player(withChild, Len(withChild))
    /\ dispatch' = PopHead
    /\ shist' = [shist EXCEPT !.completed = Append(@, SpawnWith("level"))]
    /\ UNCHANGED <<splashVars, frameVars, moveVars>>

\* the commands a command queued have all been applied: the command is complete
flush_done ==
    /\ Len(dispatch) > 1
    /\ Top.queue = <<>>
    /\ dispatch' = SubSeq(dispatch, 1, Len(dispatch) - 1)
    /\ shist' = IF Len(dispatch) = 2
                THEN [shist EXCEPT !.completed = Append(@, Top.cause)]
                ELSE shist
    /\ UNCHANGED <<splashVars, frameVars, moveVars, spawned>>

SpawnNext ==
    \/ spawn_level
    \/ spawn_player
    \/ apply_spawn
    \/ level
    \/ flush_done

\* the queued spawn requests of an issuing system, applied
SpawnSpec == SpawnInit /\ [][SpawnNext]_vars

\* the number of entries of a sequence that satisfy a test
CountKind(ents, k) == Cardinality({i \in DOMAIN ents : ents[i].kind = k})

\* the level requests among a sequence of commands
LevelRequests(cs) ==
    Cardinality({i \in DOMAIN cs :
                    cs[i] \in {Trigger("SpawnLevel"), SpawnWith("level")}})

\* control is with the issuer's queue: no command is being applied
AtTopLevel == Len(dispatch) = 1

====
